---- MODULE Spec2Model ----
(***************************************************************************)
(* Model of MappedTree<T> (src/src/lib.rs): a tree over caller-supplied    *)
(* keys, stored as a HashMap from key to Links {parent, children} plus a   *)
(* size counter.  Every public operation is one atomic action.             *)
(*                                                                         *)
(* Option<X> is modelled as a sequence of length <= 1: <<>> is None and    *)
(* <<x>> is Some(x).  The HashMap is a function whose DOMAIN is the set of *)
(* keys that have a record.                                                *)
(***************************************************************************)
EXTENDS Integers, Sequences, FiniteSets, TLC

\* ---- bounds ----
NumKeys == 3
MaxSize == 4
MaxLen  == 2

Keys == 0 .. (NumKeys - 1)

None == << >>

\* the value of a call that returns ()
Unit == "()"
Some(x) == << x >>

\* ---- state ----
VARIABLES links_by_obj, size, call, old

vars == << links_by_obj, size, call, old >>

\* struct Links { parent: Option<T>, children: Vec<T> }
Links(p, c) == [parent |-> p, children |-> c]

\* ---- HashMap primitives ----
MapRemove(l, k) == [x \in (DOMAIN l) \ {k} |-> l[x]]

MapInsert(l, k, v) == [x \in (DOMAIN l) \cup {k} |-> IF x = k THEN v ELSE l[x]]

EmptyMap == [x \in {} |-> Links(None, << >>)]

\* ---- read-only accessors ----
contains(l, obj) == obj \in DOMAIN l

len(sz) == sz

parent(l, obj) == IF obj \in DOMAIN l THEN l[obj].parent ELSE None

children(l, obj) == IF obj \in DOMAIN l THEN Some(l[obj].children) ELSE None

\* The `while let Some(parent) = self.parent(&next)` loop of root(), started
\* at `next`.  The loop reads an unchanging table, so it runs forever exactly
\* when it comes back to a key it has already visited (hang = TRUE).
RECURSIVE Walk(_, _, _)
Walk(l, next, seen) ==
  IF parent(l, next) = None
    THEN [hang |-> FALSE, key |-> next]
    ELSE LET p == parent(l, next)[1] IN
         IF p \in seen
           THEN [hang |-> TRUE, key |-> next]
           ELSE Walk(l, p, seen \cup {p})

\* root() without the upward walk: the first key of the iteration is returned.
RootFrom_no_walk(l, first) == [hang |-> FALSE, key |-> first]

\* root() when keys().next() yields `first`.
RootFrom(l, first) == Walk(l, first, {first})

\* ---- Vec primitives ----
\* Iterator::position(|item| *item == *obj): index of the first occurrence.
Position(v, obj) ==
  IF \E i \in 1..Len(v) : v[i] = obj
    THEN Some(CHOOSE i \in 1..Len(v) : v[i] = obj /\ \A j \in 1..(i-1) : v[j] # obj)
    ELSE None

\* Vec::swap_remove(i): the last element takes the place of element i.
SwapRemove(v, i) ==
  [j \in 1..(Len(v) - 1) |-> IF j = i THEN v[Len(v)] ELSE v[j]]

\* ---- removal ----
\* An execution state of a mutating call: the table, the counter and how the
\* call is going: "ok"; "panic", an unwrap()/expect()/panic!() fired;
\* "underflow", a usize subtraction went below zero (a panic in a build with
\* overflow checks, a wrap-around otherwise; NoUnderflow shows that no call
\* gets there); "overflow", the recursion never returns and the thread
\* overflows its stack; "hang", the loop of root() never ends.
Exec(l, sz, st) == [links |-> l, size |-> sz, status |-> st]

RECURSIVE remove_children(_, _, _)
RECURSIVE RemoveChildrenLoop(_, _, _, _)
RECURSIVE RemoveRecordsLoop(_, _, _)

\* for child in &children { self.links_by_obj.remove(&child); }
RemoveRecordsLoop(l, cs, i) ==
  IF i > Len(cs) THEN l ELSE RemoveRecordsLoop(MapRemove(l, cs[i]), cs, i + 1)

\* remove_children_without_links() without the descent into the children:
\* only the records of the direct children are dropped.
remove_children_without_links_flat(e, obj, stack) ==
  IF e.status # "ok" \/ obj \notin DOMAIN e.links THEN e
  ELSE LET cs == e.links[obj].children IN
       Exec(RemoveRecordsLoop(e.links, cs, 1), e.size - Len(cs),
            IF e.size < Len(cs) THEN "underflow" ELSE "ok")

\* remove_children_without_links() without `self.size -= children_count`.
remove_children_without_links_no_count(e, obj, stack) ==
  IF e.status # "ok" \/ obj \notin DOMAIN e.links THEN e
  ELSE LET cs == e.links[obj].children
           e1 == RemoveChildrenLoop(e, cs, 1, stack \cup {obj})
       IN  IF e1.status # "ok" THEN e1
           ELSE Exec(RemoveRecordsLoop(e1.links, cs, 1), e1.size, "ok")

\* `stack` is the set of keys whose remove_children_without_links call is
\* still on the call stack.
remove_children_without_links(e, obj, stack) ==
  IF e.status # "ok" \/ obj \notin DOMAIN e.links THEN e
  ELSE LET cs == e.links[obj].children
           e1 == RemoveChildrenLoop(e, cs, 1, stack \cup {obj})
       IN  IF e1.status # "ok" THEN e1
           ELSE IF e1.size < Len(cs)
             THEN Exec(RemoveRecordsLoop(e1.links, cs, 1), e1.size - Len(cs), "underflow")
             ELSE Exec(RemoveRecordsLoop(e1.links, cs, 1), e1.size - Len(cs), "ok")

\* for child in &children { self.remove_children(&child); }
RemoveChildrenLoop(e, cs, i, stack) ==
  IF i > Len(cs) \/ e.status # "ok" THEN e
  ELSE RemoveChildrenLoop(remove_children(e, cs[i], stack), cs, i + 1, stack)

\* remove_children() without `links.children.clear()`.
remove_children_no_clear(e, obj, stack) ==
  IF e.status # "ok" THEN e
  ELSE IF obj \in stack THEN [e EXCEPT !.status = "overflow"]
  ELSE remove_children_without_links(e, obj, stack)

\* Re-entering a key whose call is still on the stack repeats the same
\* descent without end: the call never returns.
remove_children(e, obj, stack) ==
  IF e.status # "ok" THEN e
  ELSE IF obj \in stack THEN [e EXCEPT !.status = "overflow"]
  ELSE LET e1 == remove_children_without_links(e, obj, stack) IN
       IF e1.status # "ok" THEN e1
       ELSE IF obj \in DOMAIN e1.links
         THEN [e1 EXCEPT !.links[obj].children = << >>]
         ELSE e1

\* remove() with `self.size -= 1` moved out of the `if let`: an absent key is
\* counted out as well.
remove_decrement_first(e, obj) ==
  LET e1 == remove_children(e, obj, {}) IN
  IF e1.status # "ok" THEN [exec |-> e1, ret |-> FALSE]
  ELSE IF e1.size < 1 THEN [exec |-> [e1 EXCEPT !.status = "underflow"], ret |-> FALSE]
  ELSE IF obj \notin DOMAIN e1.links
    THEN [exec |-> Exec(e1.links, e1.size - 1, "ok"), ret |-> FALSE]
  ELSE LET lk == e1.links[obj]
           l2 == MapRemove(e1.links, obj)
           s2 == e1.size - 1
       IN  IF lk.parent = None THEN [exec |-> Exec(l2, s2, "ok"), ret |-> TRUE]
           ELSE LET p == lk.parent[1] IN
                IF p \notin DOMAIN l2 \/ Position(l2[p].children, obj) = None
                  THEN [exec |-> Exec(l2, s2, "panic"), ret |-> FALSE]
                  ELSE [exec |-> Exec([l2 EXCEPT ![p].children =
                                         SwapRemove(@, Position(@, obj)[1])], s2, "ok"),
                        ret |-> TRUE]

\* remove() without the swap_remove on the parent's list.
remove_keeps_parent_entry(e, obj) ==
  LET e1 == remove_children(e, obj, {}) IN
  IF e1.status # "ok" \/ obj \notin DOMAIN e1.links THEN [exec |-> e1, ret |-> FALSE]
  ELSE [exec |-> Exec(MapRemove(e1.links, obj), e1.size - 1,
                      IF e1.size < 1 THEN "underflow" ELSE "ok"),
        ret |-> e1.size >= 1]

\* remove(): the execution state and the returned bool.
remove(e, obj) ==
  LET e1 == remove_children(e, obj, {}) IN
  IF e1.status # "ok" THEN [exec |-> e1, ret |-> FALSE]
  ELSE IF obj \notin DOMAIN e1.links THEN [exec |-> e1, ret |-> FALSE]
  ELSE LET lk == e1.links[obj]
           l2 == MapRemove(e1.links, obj)
           s2 == e1.size - 1
       IN  IF e1.size < 1 THEN [exec |-> Exec(l2, s2, "underflow"), ret |-> FALSE]
           ELSE IF lk.parent = None THEN [exec |-> Exec(l2, s2, "ok"), ret |-> TRUE]
           ELSE LET p == lk.parent[1] IN
                IF p \notin DOMAIN l2 THEN [exec |-> Exec(l2, s2, "panic"), ret |-> FALSE]
                ELSE LET idx == Position(l2[p].children, obj) IN
                     IF idx = None THEN [exec |-> Exec(l2, s2, "panic"), ret |-> FALSE]
                     ELSE [exec |-> Exec([l2 EXCEPT ![p].children = SwapRemove(@, idx[1])], s2, "ok"),
                           ret |-> TRUE]

\* ---- reset_root ----
\* for child in &children { get_mut(child).unwrap().parent = Some(obj) }
RECURSIVE ReparentLoop(_, _, _, _)
ReparentLoop(e, cs, i, obj) ==
  IF i > Len(cs) \/ e.status # "ok" THEN e
  ELSE IF cs[i] \notin DOMAIN e.links THEN [e EXCEPT !.status = "panic"]
  ELSE ReparentLoop([e EXCEPT !.links[cs[i]].parent = Some(obj)], cs, i + 1, obj)

\* reset_root() without `self.links_by_obj.remove(&old_root)`: the old root
\* keeps its record.
reset_root_keeps_old_root(e, obj, old_root) ==
  IF children(e.links, old_root) = None THEN [e EXCEPT !.status = "panic"]
  ELSE LET cs == children(e.links, old_root)[1]
           e1 == ReparentLoop(e, cs, 1, obj)
       IN  IF e1.status # "ok" THEN e1
           ELSE [e1 EXCEPT !.links = MapInsert(e1.links, obj, Links(None, cs))]

\* reset_root() on a non-empty table when root() returned old_root.
reset_root_nonempty(e, obj, old_root) ==
  IF children(e.links, old_root) = None THEN [e EXCEPT !.status = "panic"]
  ELSE LET cs == children(e.links, old_root)[1]
           e1 == ReparentLoop(e, cs, 1, obj)
       IN  IF e1.status # "ok" THEN e1
           ELSE [e1 EXCEPT !.links = MapInsert(MapRemove(e1.links, old_root), obj, Links(None, cs))]

\* reset_root() on an empty table.
reset_root_empty(e, obj) ==
  Exec(MapInsert(e.links, obj, Links(None, << >>)), e.size + 1, "ok")

\* ---- insert ----
\* insert() without the contains_key test: a present key is overwritten.
insert_no_unique_check(e, obj, par) ==
  IF par \notin DOMAIN e.links THEN [e EXCEPT !.status = "panic"]
  ELSE Exec(MapInsert([e.links EXCEPT ![par].children = Append(@, obj)],
                      obj, Links(Some(par), << >>)),
            e.size + 1, "ok")

\* insert() that pushes onto the parent's list only `if let Some(..)` and
\* creates the record in any case.
insert_no_parent_check(e, obj, par) ==
  IF obj \in DOMAIN e.links THEN [e EXCEPT !.status = "panic"]
  ELSE Exec(MapInsert(IF par \in DOMAIN e.links
                        THEN [e.links EXCEPT ![par].children = Append(@, obj)]
                        ELSE e.links,
                      obj, Links(Some(par), << >>)),
            e.size + 1, "ok")

\* insert() that puts the new key at the front of the parent's list.
insert_push_front(e, obj, par) ==
  IF obj \in DOMAIN e.links \/ par \notin DOMAIN e.links THEN [e EXCEPT !.status = "panic"]
  ELSE Exec(MapInsert([e.links EXCEPT ![par].children = << obj >> \o @],
                      obj, Links(Some(par), << >>)),
            e.size + 1, "ok")

\* insert(): the first test panics on a present key, .expect() on an absent
\* parent; both come before the first write.
insert(e, obj, par) ==
  IF obj \in DOMAIN e.links THEN [e EXCEPT !.status = "panic"]
  ELSE IF par \notin DOMAIN e.links THEN [e EXCEPT !.status = "panic"]
  ELSE Exec(MapInsert([e.links EXCEPT ![par].children = Append(@, obj)],
                      obj, Links(Some(par), << >>)),
            e.size + 1, "ok")

\* ---- the tree of the tests ----
\* test_tree(): root 0; 1, 2 under 0; 3, 4 under 1; 5, 6, 7 under 2.
test_tree ==
  LET t0 == reset_root_empty(Exec(EmptyMap, 0, "ok"), 0)
      t1 == insert(t0, 1, 0)
      t2 == insert(t1, 2, 0)
      t3 == insert(t2, 3, 1)
      t4 == insert(t3, 4, 1)
      t5 == insert(t4, 5, 2)
      t6 == insert(t5, 6, 2)
  IN  insert(t6, 7, 2)

\* ---- the state machine ----
Call(op, obj, par, ret, outcome) ==
  [op |-> op, obj |-> obj, par |-> par, ret |-> ret, outcome |-> outcome]

Snapshot == [links |-> links_by_obj, size |-> size]

Cur == Exec(links_by_obj, size, "ok")

\* A call is made only on a tree whose previous call returned: a panic
\* unwinds out of the caller, a stack overflow aborts the process and an
\* endless loop never gives control back.  The state of such a call is the
\* table as the call left it.
Alive == call.outcome = "ok"

Commit(e, op, obj, par, ret) ==
  /\ links_by_obj' = e.links
  /\ size' = e.size
  /\ old' = Snapshot
  /\ call' = Call(op, obj, par, IF e.status = "ok" THEN ret ELSE None, e.status)

Init ==
  /\ links_by_obj = EmptyMap
  /\ size = 0
  /\ call = Call("new", None, None, None, "ok")
  /\ old = [links |-> EmptyMap, size |-> 0]

Root ==
  /\ Alive
  /\ IF DOMAIN links_by_obj = {}
       THEN Commit(Cur, "root", None, None, Some(None))
       ELSE \E first \in DOMAIN links_by_obj :
              LET r == RootFrom(links_by_obj, first) IN
              IF r.hang
                THEN Commit([Cur EXCEPT !.status = "hang"], "root", None, None, None)
                ELSE Commit(Cur, "root", None, None, Some(Some(r.key)))

ResetRoot ==
  /\ Alive
  /\ \E obj \in Keys :
       IF DOMAIN links_by_obj = {}
         THEN /\ size < MaxSize
              /\ Commit(reset_root_empty(Cur, obj), "reset_root", Some(obj), None, Some(None))
         ELSE \E first \in DOMAIN links_by_obj :
                LET r == RootFrom(links_by_obj, first) IN
                IF r.hang
                  THEN Commit([Cur EXCEPT !.status = "hang"], "reset_root", Some(obj), None, None)
                  ELSE Commit(reset_root_nonempty(Cur, obj, r.key),
                              "reset_root", Some(obj), None, Some(Some(r.key)))

Insert ==
  /\ Alive
  /\ \E obj \in Keys, par \in Keys :
       /\ size < MaxSize
       /\ par \in DOMAIN links_by_obj => Len(links_by_obj[par].children) < MaxLen
       /\ Commit(insert(Cur, obj, par), "insert", Some(obj), Some(par), Some(Unit))

RemoveChildren ==
  /\ Alive
  /\ \E obj \in Keys :
       Commit(remove_children(Cur, obj, {}), "remove_children", Some(obj), None, Some(Unit))

Remove ==
  /\ Alive
  /\ \E obj \in Keys :
       LET r == remove(Cur, obj) IN
       Commit(r.exec, "remove", Some(obj), None, Some(r.ret))

Next == Root \/ ResetRoot \/ Insert \/ RemoveChildren \/ Remove

Spec == Init /\ [][Next]_vars

\* No subtraction from size goes below zero.
NoUnderflow == call.outcome # "underflow" /\ size >= 0

\* ---- vocabulary of the properties ----
Range(v) == {v[i] : i \in 1..Len(v)}

Present == DOMAIN links_by_obj

\* The state is one that a sequence of returned calls has produced.
Returned == call.outcome = "ok"

\* Keys reachable from a set of keys through the children relation of l.
RECURSIVE Reach(_, _, _)
Reach(l, frontier, acc) ==
  LET nxt == UNION {Range(l[k].children) : k \in frontier \cap DOMAIN l} \ acc IN
  IF nxt = {} THEN acc ELSE Reach(l, nxt, acc \cup nxt)

\* k and every key reachable from k through children lists.
Subtree(l, k) == Reach(l, {k}, {k})

\* Keys reached from k by one or more parent steps.
RECURSIVE Up(_, _, _)
Up(l, frontier, acc) ==
  LET nxt == {p \in Keys : \E k \in frontier \cap DOMAIN l : l[k].parent = Some(p)} \ acc IN
  IF nxt = {} THEN acc ELSE Up(l, nxt, acc \cup nxt)

ProperAncestors(l, k) == Up(l, {k}, {})

\* ---- C1 ----
\* C1: after any sequence of public operations on an initially empty tree,
\* len() equals the number of keys for which contains() is true.
C1_SizeConsistency ==
  Returned => len(size) = Cardinality({k \in Keys : contains(links_by_obj, k)})

\* ---- C2 ----
\* C2: for every present key k, a parent p of k is present and lists k among
\* its children, and every child c of k is present and has k as its parent.
C2_BidirectionalLinks ==
  Returned =>
    \A k \in Present :
      /\ \A p \in Keys :
           parent(links_by_obj, k) = Some(p) =>
             /\ contains(links_by_obj, p)
             /\ k \in Range(children(links_by_obj, p)[1])
      /\ \A c \in Range(children(links_by_obj, k)[1]) :
           /\ contains(links_by_obj, c)
           /\ parent(links_by_obj, c) = Some(k)

\* ---- C3 ----
\* C3: no key appears in the children lists of two different keys.
C3_Uniqueness ==
  Returned =>
    \A a, b \in Present :
      a # b => Range(links_by_obj[a].children) \cap Range(links_by_obj[b].children) = {}

\* ---- C4 ----
\* C4: the parent relation has no cycle: following parent() from a present
\* key never comes back to a key already visited.
C4_NoParentCycle ==
  Returned =>
    \A k \in Present :
      \A a \in ProperAncestors(links_by_obj, k) \cup {k} :
        a \notin ProperAncestors(links_by_obj, a)

\* ---- C5 ----
\* C5: whenever remove(k) returns true, k and every key that was reachable
\* from k through the children relation before the call are absent.
C5_CascadeRemoval ==
  (call.op = "remove" /\ call.outcome = "ok" /\ call.ret = Some(TRUE)) =>
    \A d \in Subtree(old.links, call.obj[1]) : ~contains(links_by_obj, d)

\* remove(k) returned true for a key that had a present grandchild.
C5_Witness ==
  /\ call.op = "remove" /\ call.outcome = "ok" /\ call.ret = Some(TRUE)
  /\ \E c \in Range(old.links[call.obj[1]].children) \cap DOMAIN old.links :
       \E g \in Range(old.links[c].children) \cap DOMAIN old.links :
         Cardinality({call.obj[1], c, g}) = 3

\* ---- C6 ----
\* The keys root() can return on table l, one per key the iteration can
\* yield first.
RootOutcomes(l) ==
  {RootFrom(l, first).key : first \in {f \in DOMAIN l : ~RootFrom(l, f).hang}}

\* C6 as stated: on a non-empty tree with root r, reset_root(x) returns
\* Some(r); afterwards x is present and parentless, every former direct child
\* of r has parent x and is listed in children(x), and r has no record.
C6_RebaseCorrectness ==
  (call.op = "reset_root" /\ call.outcome = "ok" /\ DOMAIN old.links # {}) =>
    \E r \in RootOutcomes(old.links) :
      LET x == call.obj[1] IN
      /\ call.ret = Some(Some(r))
      /\ contains(links_by_obj, x)
      /\ parent(links_by_obj, x) = None
      /\ \A c \in Range(children(old.links, r)[1]) :
           /\ parent(links_by_obj, c) = Some(x)
           /\ c \in Range(children(links_by_obj, x)[1])
      /\ ~contains(links_by_obj, r)

\* C6, amended: on a non-empty tree, a reset_root(x) that returns, returns
\* Some(r) for the key r that root() gave; afterwards x is present and
\* parentless, every key of r's former children list is listed in
\* children(x), every such key other than x and r has parent x, and r has no
\* record unless x = r.
C6_RebaseAmended ==
  (call.op = "reset_root" /\ call.outcome = "ok" /\ DOMAIN old.links # {}) =>
    \E r \in RootOutcomes(old.links) :
      LET x == call.obj[1] IN
      /\ call.ret = Some(Some(r))
      /\ contains(links_by_obj, x)
      /\ parent(links_by_obj, x) = None
      /\ \A c \in Range(children(old.links, r)[1]) :
           /\ c \notin {x, r} => parent(links_by_obj, c) = Some(x)
           /\ c \in Range(children(links_by_obj, x)[1])
      /\ x # r => ~contains(links_by_obj, r)

\* reset_root(x) has returned Some(r) for a key x that was absent, r had a
\* child, which is now a child of x, and r is gone.
C6_Witness ==
  /\ call.op = "reset_root" /\ call.outcome = "ok" /\ call.ret # Some(None)
  /\ ~contains(old.links, call.obj[1])
  /\ ~contains(links_by_obj, call.ret[1][1])
  /\ \E c \in Range(children(old.links, call.ret[1][1])[1]) :
       /\ parent(links_by_obj, c) = call.obj
       /\ c \in Range(children(links_by_obj, call.obj[1])[1])

\* ---- C7 ----
\* A connected tree: exactly one present key has no parent, and every other
\* present key reaches it by parent steps.
ParentlessKeys(l) == {k \in DOMAIN l : l[k].parent = None}

ConnectedTree(l) ==
  /\ Cardinality(ParentlessKeys(l)) = 1
  /\ \A k \in DOMAIN l :
       k \in ParentlessKeys(l) \/ ParentlessKeys(l) \subseteq ProperAncestors(l, k)

\* C7: in a connected tree the parent walk from any present key ends at the
\* unique parentless key, and root() returns that key whichever key the
\* iteration yields first.
C7_RootDiscovery ==
  ConnectedTree(links_by_obj) =>
    /\ \A first \in Present :
         /\ ~RootFrom(links_by_obj, first).hang
         /\ {RootFrom(links_by_obj, first).key} = ParentlessKeys(links_by_obj)
    /\ call.op = "root" =>
         /\ call.outcome = "ok"
         /\ \E r \in ParentlessKeys(links_by_obj) : call.ret = Some(Some(r))

\* root() has answered on a connected tree in which some key is two parent
\* steps below the root.
C7_Witness ==
  /\ call.op = "root" /\ call.outcome = "ok"
  /\ ConnectedTree(links_by_obj)
  /\ \E k \in Present : Cardinality(ProperAncestors(links_by_obj, k)) = 2

\* ---- C8 ----
\* C8: insert(key, parent) with key present panics and leaves every record
\* and len() as they were, whatever the parent.
C8_InsertRejectsDuplicate ==
  (call.op = "insert" /\ contains(old.links, call.obj[1])) =>
    /\ call.outcome = "panic"
    /\ links_by_obj = old.links
    /\ len(size) = len(old.size)

\* insert of a present key under an absent parent has been rejected.
C8_Witness ==
  /\ call.op = "insert" /\ call.outcome = "panic"
  /\ contains(old.links, call.obj[1])
  /\ ~contains(old.links, call.par[1])

\* ---- C9 ----
\* C9: insert(key, parent) with parent absent panics and leaves every record
\* and len() as they were; this includes key = parent and the empty tree.
C9_InsertRejectsDanglingParent ==
  (call.op = "insert" /\ ~contains(old.links, call.par[1])) =>
    /\ call.outcome = "panic"
    /\ links_by_obj = old.links
    /\ len(size) = len(old.size)

\* insert(k, k) for an absent k has been rejected on a non-empty tree.
C9_Witness ==
  /\ call.op = "insert" /\ call.outcome = "panic"
  /\ call.obj = call.par
  /\ ~contains(old.links, call.obj[1])
  /\ DOMAIN old.links # {}

\* ---- C10 ----
\* C10: remove(k) for an absent k returns false without panicking and changes
\* neither the records nor len(); remove_children(k) for an absent k changes
\* nothing either.
C10_IdempotentAbsence ==
  (call.op \in {"remove", "remove_children"} /\ ~contains(old.links, call.obj[1])) =>
    /\ call.outcome = "ok"
    /\ call.op = "remove" => call.ret = Some(FALSE)
    /\ links_by_obj = old.links
    /\ len(size) = len(old.size)

\* remove(k) for an absent k has returned false on a non-empty tree.
C10_Witness ==
  /\ call.op = "remove" /\ call.ret = Some(FALSE)
  /\ ~contains(old.links, call.obj[1])
  /\ DOMAIN old.links # {}

\* ---- C11 ----
\* C11: a successful insert(key, parent) appends key at the end of
\* children(parent), creates the record of key with parent = Some(parent) and
\* no children, raises len() by exactly 1 and leaves the parent and the
\* children list of every other key as they were.
C11_InsertEffect ==
  (call.op = "insert" /\ call.outcome = "ok") =>
    LET k == call.obj[1]
        p == call.par[1]
    IN  /\ ~contains(old.links, k) /\ contains(old.links, p)
        /\ children(links_by_obj, p) = Some(Append(old.links[p].children, k))
        /\ parent(links_by_obj, p) = parent(old.links, p)
        /\ links_by_obj[k] = Links(Some(p), << >>)
        /\ len(size) = len(old.size) + 1
        /\ DOMAIN links_by_obj = DOMAIN old.links \cup {k}
        /\ \A j \in DOMAIN old.links \ {p} : links_by_obj[j] = old.links[j]

\* insert has succeeded under a parent that already had a child, in a tree
\* with a third key.
C11_Witness ==
  /\ call.op = "insert" /\ call.outcome = "ok"
  /\ Len(old.links[call.par[1]].children) >= 1
  /\ old.links[call.par[1]].children[1] # call.obj[1]
  /\ Cardinality(DOMAIN links_by_obj) >= 3

\* ---- well-formed trees ----
NoDuplicates(v) == \A i, j \in 1..Len(v) : v[i] = v[j] => i = j

\* Invariants 1-6 of the data model, for a table l and a counter sz: the
\* counter is the number of records, parent and children links mirror each
\* other, no list names a key twice, and the parent relation has no cycle.
WellFormed(l, sz) ==
  /\ sz = Cardinality(DOMAIN l)
  /\ \A k \in DOMAIN l :
       /\ NoDuplicates(l[k].children)
       /\ l[k].parent # None =>
            /\ l[k].parent[1] \in DOMAIN l
            /\ k \in Range(l[l[k].parent[1]].children)
       /\ \A c \in Range(l[k].children) : c \in DOMAIN l /\ l[c].parent = Some(k)
       /\ k \notin ProperAncestors(l, k)

StrictDescendants(l, k) == Subtree(l, k) \ {k}

\* ---- C12 ----
\* remove_children(2) on the tree of the tests: 5, 6, 7 go, 2 stays without
\* children, len() goes from 8 to 5.
C12_Scenario ==
  LET t == remove_children(test_tree, 2, {}) IN
  /\ test_tree.size = 8 /\ WellFormed(test_tree.links, test_tree.size)
  /\ t.status = "ok"
  /\ DOMAIN t.links = {0, 1, 2, 3, 4}
  /\ t.links[2] = Links(Some(0), << >>)
  /\ t.size = 5

\* C12: for a present key k of a well-formed tree, remove_children(k) removes
\* exactly the strict descendants of k: they are absent afterwards, k keeps
\* its parent and has no children, every key outside the subtree of k is
\* unchanged, and len() has gone down by the number of former descendants.
C12_RemoveChildrenEffect ==
  /\ C12_Scenario
  /\ (/\ call.op = "remove_children"
      /\ contains(old.links, call.obj[1])
      /\ WellFormed(old.links, old.size)) =>
       LET k == call.obj[1]
           ds == StrictDescendants(old.links, k)
       IN  /\ call.outcome = "ok"
           /\ DOMAIN links_by_obj = DOMAIN old.links \ ds
           /\ links_by_obj[k] = Links(old.links[k].parent, << >>)
           /\ \A j \in DOMAIN old.links \ (ds \cup {k}) : links_by_obj[j] = old.links[j]
           /\ len(size) = len(old.size) - Cardinality(ds)

\* remove_children(k) has run on a well-formed tree in which k had a parent
\* and a child.
C12_Witness ==
  /\ call.op = "remove_children" /\ call.outcome = "ok"
  /\ contains(old.links, call.obj[1])
  /\ WellFormed(old.links, old.size)
  /\ old.links[call.obj[1]].parent # None
  /\ old.links[call.obj[1]].children # << >>

\* ---- C13 ----
\* remove(6) on the tree of the tests: 6 goes, len() goes from 8 to 7.
C13_Scenario ==
  LET r == remove(test_tree, 6) IN
  /\ r.ret /\ r.exec.status = "ok"
  /\ ~contains(r.exec.links, 6)
  /\ r.exec.links[2].children = << 5, 7 >>
  /\ r.exec.size = 7

\* C13: for a present key k of a well-formed tree, remove(k) returns true,
\* lowers len() by 1 plus the number of descendants of k, takes k out of the
\* children list of its parent, and leaves every key outside the subtree of k
\* present with the same parent and, but for the parent of k, the same
\* children list; removing the root of a connected tree leaves no key and
\* len() = 0.
C13_RemoveEffect ==
  /\ C13_Scenario
  /\ (/\ call.op = "remove"
      /\ contains(old.links, call.obj[1])
      /\ WellFormed(old.links, old.size)) =>
       LET k == call.obj[1]
           sub == Subtree(old.links, k)
           po == old.links[k].parent
       IN  /\ call.outcome = "ok" /\ call.ret = Some(TRUE)
           /\ len(size) = len(old.size) - (1 + Cardinality(StrictDescendants(old.links, k)))
           /\ DOMAIN links_by_obj = DOMAIN old.links \ sub
           /\ \A j \in DOMAIN links_by_obj :
                /\ links_by_obj[j].parent = old.links[j].parent
                /\ po # Some(j) => links_by_obj[j].children = old.links[j].children
           /\ po # None =>
                /\ Len(links_by_obj[po[1]].children) = Len(old.links[po[1]].children) - 1
                /\ Range(links_by_obj[po[1]].children) = Range(old.links[po[1]].children) \ {k}
           /\ (po = None /\ ConnectedTree(old.links)) =>
                links_by_obj = EmptyMap /\ len(size) = 0

\* remove(k) has returned on a well-formed tree in which k had a parent and
\* a child.
C13_Witness ==
  /\ call.op = "remove" /\ call.ret = Some(TRUE)
  /\ contains(old.links, call.obj[1])
  /\ WellFormed(old.links, old.size)
  /\ old.links[call.obj[1]].parent # None
  /\ old.links[call.obj[1]].children # << >>

\* ---- C14 ----
\* C14: reset_root(x) on an empty tree returns None and leaves x present with
\* no parent and no children, len() = 1 and root() = Some(x); so it does on a
\* tree that remove(root) has emptied.
C14_ResetRootInitializes ==
  (call.op = "reset_root" /\ DOMAIN old.links = {}) =>
    LET x == call.obj[1] IN
    /\ call.outcome = "ok" /\ call.ret = Some(None)
    /\ DOMAIN links_by_obj = {x}
    /\ parent(links_by_obj, x) = None
    /\ children(links_by_obj, x) = Some(<< >>)
    /\ len(size) = 1
    /\ RootFrom(links_by_obj, x) = [hang |-> FALSE, key |-> x]

\* ---- C15 ----
\* C15: in every reachable state every public call terminates: the parent
\* walk of root() and the recursion of remove / remove_children /
\* remove_children_without_links come to an end.
C15_EveryCallTerminates ==
  call.outcome \notin {"hang", "overflow"}

\* ---- C16 ----
\* C16: no call turns a present key that has a parent into a parentless key:
\* a key with parent = Some(_) that is still present after the call still has
\* a parent.
C16_NoChildBecomesRoot ==
  Returned =>
    \A k \in DOMAIN old.links \cap DOMAIN links_by_obj :
      parent(old.links, k) # None => parent(links_by_obj, k) # None

\* ---- C17 ----
\* C17: remove(k) takes k out of the children list of its parent by
\* swap-with-last: with k at index i of a list of length n, the new list has
\* length n-1, equals the old one at every index other than i, holds the
\* former last child at index i when i is not the last index, and its set of
\* keys is the old set minus k.
C17_SwapWithLast ==
  (/\ call.op = "remove" /\ call.ret = Some(TRUE)
   /\ parent(old.links, call.obj[1]) # None) =>
     LET k == call.obj[1]
         p == parent(old.links, k)[1]
         ol == children(old.links, p)[1]
         nl == children(links_by_obj, p)[1]
         i == Position(ol, k)[1]
         n == Len(ol)
     IN  /\ Len(nl) = n - 1
         /\ \A j \in 1..(n - 1) : j # i => nl[j] = ol[j]
         /\ i < n => nl[i] = ol[n]
         /\ Range(nl) = Range(ol) \ {k}

\* ---- C18 ----
\* C18: in every reachable non-empty state root() returns Some(k) with k
\* present and parent(k) = None, whichever key the iteration yields first;
\* root() returns None only when no key is present.
C18_RootIsPresentAndParentless ==
  Returned =>
    /\ \A first \in Present :
         LET r == RootFrom(links_by_obj, first) IN
         /\ ~r.hang
         /\ contains(links_by_obj, r.key)
         /\ parent(links_by_obj, r.key) = None
    /\ call.op = "root" => (call.ret = Some(None) <=> Present = {})

\* ---- restricted use: reset_root only with an absent key or the root ----
\* reset_root(obj) by a caller that passes only a key without record or the
\* key root() returns.
ResetRootAbsentOrRoot ==
  /\ ResetRoot
  /\ \/ ~contains(links_by_obj, call'.obj[1])
     \/ call'.obj[1] \in RootOutcomes(links_by_obj)

NextRestricted == Root \/ ResetRootAbsentOrRoot \/ Insert \/ RemoveChildren \/ Remove

SpecRestricted == Init /\ [][NextRestricted]_vars

\* ---- C19 ----
\* C19: when reset_root is only called with an absent key or the current
\* root, no call panics but insert on a present key or an absent parent: the
\* unwrap() calls of reset_root and remove succeed and no subtraction from
\* size goes below zero.
C19_NoPanicButInsert ==
  /\ call.outcome = "panic" =>
       /\ call.op = "insert"
       /\ contains(old.links, call.obj[1]) \/ ~contains(old.links, call.par[1])
  /\ call.outcome # "underflow"
  /\ size >= 0

\* remove(k) has gone through both unwrap() calls and both subtractions: k
\* had a parent and a child.
C19_Witness ==
  /\ call.op = "remove" /\ call.ret = Some(TRUE)
  /\ parent(old.links, call.obj[1]) # None
  /\ children(old.links, call.obj[1]) # Some(<< >>)

\* ---- C20 ----
\* C20: when reset_root is only called with an absent key or the current
\* root, every non-empty state is one connected tree: exactly one present key
\* has no parent and every present key reaches it by parent steps.
C20_SingleConnectedTree ==
  (Returned /\ Present # {}) =>
    /\ ConnectedTree(links_by_obj)
    /\ \A k \in Present : ProperAncestors(links_by_obj, k) \subseteq Present

\* reset_root(x) with an absent x has replaced the root of a tree with more
\* than one key.
C20_Witness ==
  /\ call.op = "reset_root" /\ call.outcome = "ok" /\ call.ret # Some(None)
  /\ ~contains(old.links, call.obj[1])
  /\ Cardinality(Present) >= 2
====
